---- MODULE Spec2Model ----
(***************************************************************************)
(* A model of the SimpleNN package: the log parser and vectorizer          *)
(* (SimpleNN/data.py: Sample, CriteoDataset), the pool-grouped batcher     *)
(* (BatchIterator), the IPS evaluation pass (SimpleNN/__main__.py:         *)
(* run_test_set), the training loss (calc_loss) and the epoch loop of the  *)
(* script.                                                                 *)
(*                                                                         *)
(* Encodings.  A log line is a record: its kind after line.strip() (blank, *)
(* containing "shared", or a candidate line), the shape of a candidate     *)
(* line (fmt), its score field and its feature tokens.  A feature token is *)
(* a record of its textual form: "num" is id:value, "cat" is id_category,  *)
(* "catw" is id_category:weight, "bare" has neither ':' nor '_', "multi"   *)
(* has two ':' and no '_'.  Floats are fixed point: a click value is kept  *)
(* in halves (click2 = 3 is 1.5), a propensity in quarters (4 is 1.0).     *)
(* Python's None for an optional object is the empty sequence, Some(x) is  *)
(* <<x>>.  The fields Sample.__init__ sets to None are absent from a       *)
(* pending sample's record and are added by Done.                          *)
(***************************************************************************)
EXTENDS Integers, Sequences, FiniteSets, TLC

\* ---------------------------------------------------------------- bounds
MaxLines == 4        \* lines of a log file
MaxStart == 1        \* largest start_idx tried
MaxTokens == 3       \* tokens of a feature string given to the vectorizer
MaxLoads == 2        \* CriteoDataset constructions on one path
MaxCacheLines == 3   \* lines of the log file in the cache runs
MaxSessions == 3     \* sessions of a dataset given to the batcher
MaxBatch == 2        \* largest batch size tried
MaxSplit == 2        \* sessions of the train and of the test split of a run
MaxEpochs == 2       \* largest --epochs tried
HashWidth == 3       \* columns of the feature hasher (n_features - 2 in the program)

\* ------------------------------------------------------ program constants
NumSlots == 35       \* width of a dictionary-mode vector
NumNumerical == 2    \* numeric prefix of a hashed-mode vector

VARIABLES
  \* CriteoDataset / load
  file,          \* the lines of the source file
  stop_idx,      \* cutoff (-1: none)
  start_idx,     \* start offset
  hasher,        \* TRUE: self.hasher is a FeatureHasher, FALSE: None
  i,             \* raw index of the next line of enumerate(f)
  sample,        \* the pending Sample: <<>> (None) or <<s>>
  samples,       \* self.samples
  pickles,       \* stop_idx -> <<>> (no pickle file) or <<samples>>
  pc,            \* where the constructor is
  loads,         \* constructions started so far
  cached,        \* the last construction read the pickle file
  \* Sample.features_to_vector
  features,      \* the token string
  vector,        \* the vector being filled
  pos,           \* tokens consumed
  vpc,           \* "run", "done" or "raised"
  \* BatchIterator
  dataset,               \* self.dataset: the sessions, in load order
  batch_size,            \* self.batch_size
  sorted_per_pool_size,  \* the dict, as its items in insertion order
  gen,                   \* the generator of __iter__: "new", "running", "stopped"
  gi,                    \* items of the dict the generator has entered
  bi,                    \* the next i of range(0, len(data), batch_size)
  emitted,               \* the batches this iteration has yielded (history)
  again,                 \* __iter__ was called before on this object (history)
  \* run_test_set
  R, C, N,               \* the running sums, then the reported values
  R_div_C,               \* the reported ratio
  epc,                   \* "loop", "reported" or "raised"
  \* the script: __main__
  train_set, test_set,   \* the two datasets, as the batcher sees them
  epochs,                \* args.epochs
  epoch,                 \* the i of the epoch loop (-1 before the loop)
  tpc,                   \* "eval", "train", "done" or "raised"
  steps,                 \* calls of optimizer.step() so far
  losses,                \* the list losses of the current epoch
  passes                 \* the passes finished so far, in order (history)

loadVars == <<file, stop_idx, start_idx, hasher, i, sample, samples, pickles, pc, loads, cached>>
vecVars == <<features, vector, pos, vpc>>
iterVars == <<dataset, batch_size, sorted_per_pool_size, gen, gi, bi, emitted, again>>
evalVars == <<R, C, N, R_div_C, epc>>
trainVars == <<train_set, test_set, epochs, epoch, tpc, steps, losses, passes>>
vars == <<loadVars, vecVars, iterVars, evalVars, trainVars>>

\* ------------------------------------------------------------- utilities
Range(s) == {s[k] : k \in 1..Len(s)}

SeqsUpTo(S, n) == UNION {[1..k -> S] : k \in 0..n}

Min(a, b) == IF a < b THEN a ELSE b

RECURSIVE Gcd(_, _)
Gcd(a, b) == IF b = 0 THEN a ELSE Gcd(b, a % b)

RECURSIVE SumSeq(_)
SumSeq(s) == IF s = <<>> THEN 0 ELSE Head(s) + SumSeq(Tail(s))

\* ------------------------------------------------------- feature tokens
Tok(form, id, value) == [form |-> form, id |-> id, value |-> value]

\* self.feature_dict: feature id -> (category -> dense index); ids 1 and 2
\* are numeric and have no entry.
FeatureDict == [d \in {3, 4} |-> IF d = 3 THEN [c \in {7} |-> 1] ELSE [c \in {7, 9} |-> IF c = 7 THEN 1 ELSE 2]]

\* Sample.get_category_index: <<index>>, <<>> for None.  Raises KeyError
\* (see GetCategoryRaises) when the feature id has no dictionary.
GetCategoryRaises(feature) == feature \notin DOMAIN FeatureDict

GetCategoryIndexNewSlot(feature, category) ==
  IF category \in DOMAIN FeatureDict[feature]
    THEN <<FeatureDict[feature][category]>>
    ELSE <<Cardinality(DOMAIN FeatureDict[feature]) + 1>>

GetCategoryIndex(feature, category) ==
  IF category \in DOMAIN FeatureDict[feature]
    THEN <<FeatureDict[feature][category]>>
    ELSE <<>>

\* vector[int(feature_name)-1] = x on a list of n slots: Python takes the
\* indices -n..n-1, a negative one counting from the end.
SlotRaises(id, n) == id - 1 >= n \/ id - 1 < 0 - n

SlotOf(id, n) == IF id - 1 >= 0 THEN id ELSE n + id

\* One iteration of the loop of features_to_vector on state
\* [vector, raised].
VectorStep(st, t) ==
  IF t.form = "multi" THEN [st EXCEPT !.raised = TRUE]
  ELSE IF t.form = "num" THEN
    IF SlotRaises(t.id, Len(st.vector)) THEN [st EXCEPT !.raised = TRUE]
    ELSE [st EXCEPT !.vector[SlotOf(t.id, Len(st.vector))] = t.value]
  ELSE IF t.form \in {"cat", "catw"} THEN
    IF GetCategoryRaises(t.id) THEN [st EXCEPT !.raised = TRUE]
    ELSE LET category_index == GetCategoryIndex(t.id, t.value) IN
      IF category_index = <<>> THEN st
      ELSE IF SlotRaises(t.id, Len(st.vector)) THEN [st EXCEPT !.raised = TRUE]
      ELSE [st EXCEPT !.vector[SlotOf(t.id, Len(st.vector))] = category_index[1]]
  ELSE st

RECURSIVE VectorFold(_, _)
VectorFold(st, toks) ==
  IF toks = <<>> \/ st.raised THEN st ELSE VectorFold(VectorStep(st, Head(toks)), Tail(toks))

\* [0] * n
RECURSIVE Zeros(_)
Zeros(n) == IF n = 0 THEN <<>> ELSE Append(Zeros(n - 1), 0)

ZeroVector == Zeros(NumSlots)

\* Sample.features_to_vector: [vector, raised]
FeaturesToVector(toks) == VectorFold([vector |-> ZeroVector, raised |-> FALSE], toks)

\* One iteration of the loop of features_to_vector_hashed on state
\* [numerical, categorical, raised].
HashedStep(st, t) ==
  IF t.form = "multi" THEN [st EXCEPT !.raised = TRUE]
  ELSE IF t.form = "num" THEN
    IF SlotRaises(t.id, Len(st.numerical)) THEN [st EXCEPT !.raised = TRUE]
    ELSE [st EXCEPT !.numerical[SlotOf(t.id, Len(st.numerical))] = t.value]
  ELSE IF t.form \in {"cat", "catw"} THEN
    [st EXCEPT !.categorical = [d \in DOMAIN st.categorical \cup {t.id} |->
                                  IF d = t.id THEN t.value ELSE st.categorical[d]]]
  ELSE st

RECURSIVE HashedFold(_, _)
HashedFold(st, toks) ==
  IF toks = <<>> \/ st.raised THEN st ELSE HashedFold(HashedStep(st, Head(toks)), Tail(toks))

\* Sample.features_to_vector_hashed: [numerical, categorical, raised]
FeaturesToVectorHashed(toks) ==
  HashedFold([numerical |-> Zeros(NumNumerical), categorical |-> <<>>, raised |-> FALSE], toks)

\* A product vector as Python holds it: a list (dictionary mode, or hashed
\* mode after the constructor's post-processing) or the tuple
\* (numerical, categorical) that features_to_vector_hashed returns.
ListVec(v) == [form |-> "list", list |-> v, numerical |-> <<>>, categorical |-> <<>>]

TupleVec(n, c) == [form |-> "tuple", list |-> <<>>, numerical |-> n, categorical |-> c]

\* ------------------------------------------------------------- log lines
Line(kind, fmt, click2, propensity, toks) ==
  [kind |-> kind, fmt |-> fmt, click2 |-> click2, propensity |-> propensity, features |-> toks]

BlankLine == Line("blank", "ok", 0, 0, <<>>)

SharedLine == Line("shared", "ok", 0, 0, <<Tok("cat", 3, 7)>>)

\* Candidate lines: fmt "ok" is label:click:propensity|tokens, "nobar" has
\* no '|' (the whole line reads as tokens), "badscore" has a score field
\* that is not three ':'-separated fields.
ProductLines ==
  { Line("product", "ok", 2, 2, <<Tok("num", 1, 1)>>),
    Line("product", "ok", 3, 4, <<Tok("num", 2, 6), Tok("cat", 4, 8)>>),
    Line("product", "badscore", 0, 0, <<Tok("num", 1, 3)>>),
    Line("product", "nobar", 0, 0, <<Tok("num", 2, 4)>>) }

LineAlphabet == {BlankLine, SharedLine} \cup ProductLines

\* round(float(click)) on a click value in halves: Python 3 rounds a half
\* to the even integer.
Round(click2) ==
  LET q == click2 \div 2
      r == click2 % 2
  IN IF r = 0 THEN q ELSE IF q % 2 = 0 THEN q ELSE q + 1

\* ---------------------------------------------------------------- Sample
\* Sample.__init__ followed by sample.summary = line.  at: the raw indices
\* of the lines the sample was built from (a history field, not Python
\* state).
NewSample(line, idx) ==
  [summary |-> line, products |-> <<>>, at |-> [summary |-> idx, products |-> <<>>]]

\* One product vector of done(): <<vec>>, or <<>> when vectorizing raises.
ProductVec(summary, p, h) ==
  IF h THEN
    LET r == FeaturesToVectorHashed(summary.features \o p.features) IN
    IF r.raised THEN <<>> ELSE <<TupleVec(r.numerical, r.categorical)>>
  ELSE
    LET r == FeaturesToVector(summary.features \o p.features) IN
    IF r.raised THEN <<>> ELSE <<ListVec(r.vector)>>

\* The product whose score field done() reads.
ProductShowedLast(s) == s.products[Len(s.products)]

ProductShowed(s) == s.products[1]

\* Whether done() raises: no product (IndexError), a first product that
\* does not split into score|features or whose score is not three fields
\* (ValueError), or a vectorization that raises.
DoneRaises(s, h) ==
  \/ s.products = <<>>
  \/ ProductShowed(s).fmt # "ok"
  \/ \E k \in 1..Len(s.products) : ProductVec(s.summary, s.products[k], h) = <<>>

\* Sample.done when it does not raise.
Done(s, h) ==
  [summary |-> s.summary, products |-> s.products, at |-> s.at,
   click |-> Round(ProductShowed(s).click2),
   propensity |-> ProductShowed(s).propensity,
   product_vecs |-> [k \in 1..Len(s.products) |-> ProductVec(s.summary, s.products[k], h)[1]]]

\* What a session holds, without the history field.
Content(s) ==
  [summary |-> s.summary, products |-> s.products, click |-> s.click,
   propensity |-> s.propensity, product_vecs |-> s.product_vecs]

\* ------------------------------------------------------ CriteoDataset.load
\* The body of the loop of load for a line inside the range, on the state
\* [sample, samples, raised].
LoadLine(st, idx, line, h) ==
  IF line.kind = "blank" THEN st
  ELSE IF line.kind = "shared" THEN
    IF st.sample # <<>> THEN
      IF DoneRaises(st.sample[1], h) THEN [st EXCEPT !.raised = TRUE]
      ELSE [sample |-> <<NewSample(line, idx)>>,
            samples |-> Append(st.samples, Done(st.sample[1], h)),
            raised |-> FALSE]
    ELSE [st EXCEPT !.sample = <<NewSample(line, idx)>>]
  ELSE
    IF st.sample # <<>> THEN
      [st EXCEPT !.sample[1].products = Append(@, line),
                 !.sample[1].at.products = Append(@, idx)]
    ELSE st

\* The loop leaves at the cutoff.
AtCutoffInclusive(idx, stop) == stop # -1 /\ idx > stop

AtCutoff(idx, stop) == stop # -1 /\ idx >= stop

\* The loop skips a line before the start offset.
BeforeStart(idx, start) == idx < start

\* The loop of load run from line idx to its end.
RECURSIVE LoadFrom(_, _, _, _, _, _)
LoadFrom(f, stop, start, h, idx, st) ==
  IF st.raised \/ idx >= Len(f) THEN st
  ELSE IF BeforeStart(idx, start) THEN LoadFrom(f, stop, start, h, idx + 1, st)
  ELSE IF AtCutoff(idx, stop) THEN st
  ELSE LoadFrom(f, stop, start, h, idx + 1, LoadLine(st, idx, f[idx + 1], h))

\* hasher.transform on one categorical dict: one column per (id, value),
\* counted.  Stands for sklearn's FeatureHasher.
HashColumn(d, v) == ((d * 31 + v) % HashWidth) + 1

HashTransform(categorical) ==
  [c \in 1..HashWidth |-> Cardinality({d \in DOMAIN categorical : HashColumn(d, categorical[d]) = c})]

\* The hashing branch of __init__ raises: a product vector that is not a
\* pair does not unpack, and transform refuses an empty list.
HashingRaises(ss) ==
  \/ \A k \in 1..Len(ss) : ss[k].product_vecs = <<>>
  \/ \E k \in 1..Len(ss) : \E j \in 1..Len(ss[k].product_vecs) : ss[k].product_vecs[j].form # "tuple"

\* The hashing branch of __init__: every product vector becomes
\* numerical + hashed.
Hashing(ss) ==
  [k \in 1..Len(ss) |->
     [ss[k] EXCEPT !.product_vecs =
        [j \in 1..Len(ss[k].product_vecs) |->
           ListVec(ss[k].product_vecs[j].numerical \o HashTransform(ss[k].product_vecs[j].categorical))]]]

\* ------------------------------------------- the loader, one line a step
StopIdxs == {-1} \cup (MaxLines - 2)..(MaxLines - 1)

\* no pickle file yet
NoPickles == [c \in StopIdxs |-> <<>>]

LoadState == [sample |-> sample, samples |-> samples, raised |-> FALSE]

InLoop == pc = "load" /\ i < Len(file)

\* where __init__ goes on after load returns
AfterLoad == IF hasher THEN "hash" ELSE "done"

IdleVec == features = <<>> /\ vector = <<>> /\ pos = 0 /\ vpc = "idle"

IdleIter ==
  /\ dataset = <<>> /\ batch_size = 1 /\ sorted_per_pool_size = <<>> /\ gen = "new"
  /\ gi = 0 /\ bi = 0 /\ emitted = <<>> /\ again = FALSE

IdleEval == R = 0 /\ C = 0 /\ N = 0 /\ R_div_C = 0 /\ epc = "idle"

IdleTrain ==
  /\ train_set = <<>> /\ test_set = <<>> /\ epochs = 0 /\ epoch = -1 /\ tpc = "idle"
  /\ steps = 0 /\ losses = <<>> /\ passes = <<>>

IdleRest == IdleVec /\ IdleIter /\ IdleEval /\ IdleTrain

InitLoad ==
  /\ file \in SeqsUpTo(LineAlphabet, MaxLines)
  /\ stop_idx \in StopIdxs
  /\ start_idx \in 0..MaxStart
  /\ hasher \in BOOLEAN
  /\ i = 0
  /\ sample = <<>>
  /\ samples = <<>>
  /\ pickles = NoPickles
  /\ pc = "load"
  /\ loads = 1
  /\ cached = FALSE
  /\ IdleRest

\* if i < start_idx: continue
LoadSkip ==
  /\ InLoop
  /\ BeforeStart(i, start_idx)
  /\ i' = i + 1
  /\ UNCHANGED <<file, stop_idx, start_idx, hasher, sample, samples, pickles, pc, loads, cached, vecVars, iterVars, evalVars, trainVars>>

\* if i >= stop_idx: break, then pickle.dump
LoadBreak ==
  /\ InLoop
  /\ ~BeforeStart(i, start_idx)
  /\ AtCutoff(i, stop_idx)
  /\ pickles' = [pickles EXCEPT ![stop_idx] = <<samples>>]
  /\ pc' = AfterLoad
  /\ UNCHANGED <<file, stop_idx, start_idx, hasher, i, sample, samples, loads, cached, vecVars, iterVars, evalVars, trainVars>>

\* a line inside the range
LoadStep ==
  /\ InLoop
  /\ ~BeforeStart(i, start_idx)
  /\ ~AtCutoff(i, stop_idx)
  /\ LET st == LoadLine(LoadState, i, file[i + 1], hasher) IN
       \/ /\ st.raised
          /\ pc' = "raised"
          /\ UNCHANGED <<i, sample, samples>>
       \/ /\ ~st.raised
          /\ i' = i + 1
          /\ sample' = st.sample
          /\ samples' = st.samples
          /\ pc' = pc
  /\ UNCHANGED <<file, stop_idx, start_idx, hasher, pickles, loads, cached, vecVars, iterVars, evalVars, trainVars>>

\* the file is exhausted, then pickle.dump
LoadEnd ==
  /\ pc = "load"
  /\ i >= Len(file)
  /\ pickles' = [pickles EXCEPT ![stop_idx] = <<samples>>]
  /\ pc' = AfterLoad
  /\ UNCHANGED <<file, stop_idx, start_idx, hasher, i, sample, samples, loads, cached, vecVars, iterVars, evalVars, trainVars>>

\* the hashing branch of __init__
HashSamples ==
  /\ pc = "hash"
  /\ \/ /\ HashingRaises(samples)
        /\ pc' = "raised"
        /\ UNCHANGED samples
     \/ /\ ~HashingRaises(samples)
        /\ samples' = Hashing(samples)
        /\ pc' = "done"
  /\ UNCHANGED <<file, stop_idx, start_idx, hasher, i, sample, pickles, loads, cached, vecVars, iterVars, evalVars, trainVars>>

NextLoad == LoadSkip \/ LoadBreak \/ LoadStep \/ LoadEnd \/ HashSamples

SpecLoad == InitLoad /\ [][NextLoad]_vars

Spec == SpecLoad

\* ------------------------------------ features_to_vector, one token a step
TokenAlphabet ==
  { Tok("num", 3, 5), Tok("cat", 3, 7), Tok("cat", 3, 8), Tok("catw", 4, 8),
    Tok("cat", 4, 9), Tok("cat", 1, 7), Tok("bare", 0, 0), Tok("multi", 0, 0) }

IdleLoad ==
  /\ file = <<>> /\ stop_idx = -1 /\ start_idx = 0 /\ hasher = FALSE /\ i = 0
  /\ sample = <<>> /\ samples = <<>> /\ pickles = <<>> /\ pc = "idle"
  /\ loads = 0 /\ cached = FALSE

InitVec ==
  /\ features \in SeqsUpTo(TokenAlphabet, MaxTokens)
  /\ vector = ZeroVector
  /\ pos = 0
  /\ vpc = "run"
  /\ IdleLoad
  /\ IdleIter
  /\ IdleEval
  /\ IdleTrain

\* for feature in features.split(): one iteration
VecToken ==
  /\ vpc = "run"
  /\ pos < Len(features)
  /\ LET st == VectorStep([vector |-> vector, raised |-> FALSE], features[pos + 1]) IN
       \/ /\ st.raised
          /\ vpc' = "raised"
          /\ UNCHANGED <<vector, pos>>
       \/ /\ ~st.raised
          /\ vector' = st.vector
          /\ pos' = pos + 1
          /\ vpc' = vpc
  /\ UNCHANGED <<features, loadVars, iterVars, evalVars, trainVars>>

\* return vector
VecReturn ==
  /\ vpc = "run"
  /\ pos = Len(features)
  /\ vpc' = "done"
  /\ UNCHANGED <<features, vector, pos, loadVars, iterVars, evalVars, trainVars>>

NextVec == VecToken \/ VecReturn

SpecVec == InitVec /\ [][NextVec]_vars

\* ----------------------------- CriteoDataset(...), one construction a step
\* load and the hashing branch of __init__ on the artifacts `pk`:
\* [raised, samples, pickles, cached]
PickleExists(pk, stop) == pk[stop] # <<>>

Load(f, pk, stop, start, h) ==
  IF PickleExists(pk, stop)
    THEN [raised |-> FALSE, samples |-> pk[stop][1], pickles |-> pk, cached |-> TRUE]
    ELSE LET st == LoadFrom(f, stop, start, h, 0, [sample |-> <<>>, samples |-> <<>>, raised |-> FALSE]) IN
         IF st.raised
           THEN [raised |-> TRUE, samples |-> <<>>, pickles |-> pk, cached |-> FALSE]
           ELSE [raised |-> FALSE, samples |-> st.samples,
                 pickles |-> [pk EXCEPT ![stop] = <<st.samples>>], cached |-> FALSE]

CriteoDataset(f, pk, stop, start, h) ==
  LET l == Load(f, pk, stop, start, h) IN
  IF l.raised \/ ~h THEN l
  ELSE IF HashingRaises(l.samples) THEN [l EXCEPT !.raised = TRUE, !.samples = <<>>]
  ELSE [l EXCEPT !.samples = Hashing(l.samples)]

InitCache ==
  /\ file \in SeqsUpTo(LineAlphabet, MaxCacheLines)
  /\ stop_idx = -1 /\ start_idx = 0 /\ hasher = FALSE /\ i = 0
  /\ sample = <<>> /\ samples = <<>>
  /\ pickles = NoPickles
  /\ pc = "idle"
  /\ loads = 0
  /\ cached = FALSE
  /\ IdleRest

Construct ==
  /\ pc \in {"idle", "done", "raised"}
  /\ loads < MaxLoads
  /\ \E stop \in StopIdxs, start \in 0..MaxStart, h \in BOOLEAN :
       LET r == CriteoDataset(file, pickles, stop, start, h) IN
         /\ stop_idx' = stop
         /\ start_idx' = start
         /\ hasher' = h
         /\ samples' = r.samples
         /\ pickles' = r.pickles
         /\ cached' = r.cached
         /\ pc' = IF r.raised THEN "raised" ELSE "done"
  /\ loads' = loads + 1
  /\ UNCHANGED <<file, i, sample, vecVars, iterVars, evalVars, trainVars>>

NextCache == Construct

SpecCache == InitCache /\ [][NextCache]_vars

\* ----------------------------------------------------------- BatchIterator
\* A session as the batcher and the estimator see it: pool is
\* len(s.products), output is what the scoring model gives its first
\* candidate (model(sample)[:, 0, 0], a function of the session alone in
\* eval mode), sid is the object's identity (its place in the dataset).
Session(pool, click, propensity, output) ==
  [pool |-> pool, click |-> click, propensity |-> propensity, output |-> output]

SessionKinds ==
  { Session(1, 1, 4, 1), Session(1, 0, 2, 1), Session(1, 0, 4, 0),
    Session(1, 2, 4, 1), Session(2, 1, 2, 1), Session(2, 0, 4, 1) }

Datasets(n) ==
  { [k \in 1..Len(ks) |-> [sid |-> k, pool |-> ks[k].pool, click |-> ks[k].click,
                           propensity |-> ks[k].propensity, output |-> ks[k].output]] :
      ks \in SeqsUpTo(SessionKinds, n) }

\* the key of __init__'s grouping
PoolSizeConstant(s) == 1

PoolSize(s) == s.pool

\* self.sorted_per_pool_size[len(s.products)].append(s), for s in order
RECURSIVE SortedPerPoolSize(_)
SortedPerPoolSize(ds) ==
  IF ds = <<>> THEN <<>>
  ELSE LET rest == SortedPerPoolSize(SubSeq(ds, 1, Len(ds) - 1))
           s == ds[Len(ds)]
       IN IF \E g \in 1..Len(rest) : rest[g].pool_size = PoolSize(s)
            THEN [g \in 1..Len(rest) |->
                    IF rest[g].pool_size = PoolSize(s)
                      THEN [pool_size |-> rest[g].pool_size, data |-> Append(rest[g].data, s)]
                      ELSE rest[g]]
            ELSE Append(rest, [pool_size |-> PoolSize(s), data |-> <<s>>])

\* random.shuffle(data): any order
Shuffles(data) ==
  { [k \in 1..Len(data) |-> data[p[k]]] : p \in Permutations(1..Len(data)) }

\* data[i:i+batch_size]
BatchSliceShort(data, idx, size) == SubSeq(data, idx + 1, Min(idx + size - 1, Len(data)))

BatchSliceLong(data, idx, size) == SubSeq(data, idx + 1, Min(idx + size + 1, Len(data)))

BatchSlice(data, idx, size) == SubSeq(data, idx + 1, Min(idx + size, Len(data)))

\* the generator is inside the loop over range() of its current group
InGroup == gen = "running" /\ gi >= 1 /\ bi < Len(sorted_per_pool_size[gi].data)

\* the generator has to move on to the next item of the dict
GroupOver == gen = "running" /\ ~InGroup

\* __iter__(): a new generator; nothing runs before the first next()
IterCall ==
  /\ gen \in {"new", "stopped"}
  /\ gen' = "running"
  /\ gi' = 0
  /\ bi' = 0
  /\ emitted' = <<>>
  /\ again' = (gen = "stopped")
  /\ UNCHANGED <<dataset, batch_size, sorted_per_pool_size>>

\* next(): the following batch of the current group
IterYield ==
  /\ InGroup
  /\ emitted' = Append(emitted, BatchSlice(sorted_per_pool_size[gi].data, bi, batch_size))
  /\ bi' = bi + batch_size
  /\ UNCHANGED <<dataset, batch_size, sorted_per_pool_size, gen, gi, again>>

\* next(): the next group is shuffled in place and its first batch yielded
IterEnterGroup ==
  /\ GroupOver
  /\ gi < Len(sorted_per_pool_size)
  /\ \E data \in Shuffles(sorted_per_pool_size[gi + 1].data) :
       /\ sorted_per_pool_size' = [sorted_per_pool_size EXCEPT ![gi + 1].data = data]
       /\ emitted' = Append(emitted, BatchSlice(data, 0, batch_size))
  /\ gi' = gi + 1
  /\ bi' = batch_size
  /\ UNCHANGED <<dataset, batch_size, gen, again>>

\* next(): no group is left, StopIteration
IterStop ==
  /\ GroupOver
  /\ gi >= Len(sorted_per_pool_size)
  /\ gen' = "stopped"
  /\ UNCHANGED <<dataset, batch_size, sorted_per_pool_size, gi, bi, emitted, again>>

\* BatchIterator(dataset, batch_size, enable_cuda)
InitIter(ds, size) ==
  /\ dataset = ds
  /\ batch_size = size
  /\ sorted_per_pool_size = SortedPerPoolSize(ds)
  /\ gen = "new"
  /\ gi = 0
  /\ bi = 0
  /\ emitted = <<>>
  /\ again = FALSE

InitBatch ==
  /\ \E ds \in Datasets(MaxSessions), size \in 1..MaxBatch : InitIter(ds, size)
  /\ IdleLoad
  /\ IdleVec
  /\ IdleEval
  /\ IdleTrain

BatchCall == IterCall /\ UNCHANGED <<loadVars, vecVars, evalVars, trainVars>>

BatchYield == IterYield /\ UNCHANGED <<loadVars, vecVars, evalVars, trainVars>>

BatchEnterGroup == IterEnterGroup /\ UNCHANGED <<loadVars, vecVars, evalVars, trainVars>>

BatchStop == IterStop /\ UNCHANGED <<loadVars, vecVars, evalVars, trainVars>>

NextBatch == BatchCall \/ BatchYield \/ BatchEnterGroup \/ BatchStop

SpecBatch == InitBatch /\ [][NextBatch]_vars

\* ------------------------------------------------------------ run_test_set
\* A reported number: a fraction in lowest terms, or what torch prints for
\* x/0.
Frac(n, d) ==
  LET g == Gcd(IF n < 0 THEN 0 - n ELSE n, d)
  IN [kind |-> "number", num |-> n \div g, den |-> d \div g]

NotANumber == [kind |-> "nan", num |-> 0, den |-> 0]

Infinity == [kind |-> "inf", num |-> 0, den |-> 0]

\* a / b on tensors whose values are the fractions a and b
Divide(a, b) ==
  IF b.num # 0 THEN Frac(a.num * b.den, a.den * b.num)
  ELSE IF a.num = 0 THEN NotANumber ELSE Infinity

ScaleR == 10000

\* output[:, 0, 0] / propensity, in the model's units (propensities are
\* kept in quarters, and are 1, 2 or 4 quarters here, so this is exact)
ImportanceWeight(s) == (s.output * 4) \div s.propensity

\* torch.where((click == 1), not_clicked_tensor, clicked_tensor) with
\* not_clicked_tensor = zeros and clicked_tensor = ones
RectifiedLabel(s) == IF s.click = 1 THEN 0 ELSE 1

\* o: not_clicked_tensor = 10, clicked_tensor = 1
Normalizer(s) == IF s.click = 1 THEN 10 ELSE 1

LabelledWeight(s) == RectifiedLabel(s) * ImportanceWeight(s)

\* the three tensors of a batch whose .sum() the loop adds up
Normalizers(batch) == [k \in 1..Len(batch) |-> Normalizer(batch[k])]

LabelledWeights(batch) == [k \in 1..Len(batch) |-> LabelledWeight(batch[k])]

ImportanceWeights(batch) == [k \in 1..Len(batch) |-> ImportanceWeight(batch[k])]

\* x += batch sum
AccumulateOverwrite(acc, x) == x

Accumulate(acc, x) == acc + x

\* the body of the loop on the batch just yielded
TestBody(batch) ==
  /\ N' = Accumulate(N, SumSeq(Normalizers(batch)))
  /\ R' = Accumulate(R, SumSeq(LabelledWeights(batch)))
  /\ C' = Accumulate(C, SumSeq(ImportanceWeights(batch)))
  /\ UNCHANGED <<R_div_C, epc>>

InitTest ==
  /\ \E ds \in Datasets(MaxSessions), size \in 1..MaxBatch : InitIter(ds, size)
  /\ R = 0 /\ C = 0 /\ N = 0 /\ R_div_C = 0
  /\ epc = "loop"
  /\ IdleLoad
  /\ IdleVec
  /\ IdleTrain

\* for ... in BatchIterator(...): the call of __iter__
TestIter ==
  /\ epc = "loop"
  /\ gen = "new"
  /\ IterCall
  /\ UNCHANGED <<loadVars, vecVars, evalVars, trainVars>>

TestBatch ==
  /\ epc = "loop"
  /\ IterYield
  /\ TestBody(emitted'[Len(emitted')])
  /\ UNCHANGED <<loadVars, vecVars, trainVars>>

TestFirstBatch ==
  /\ epc = "loop"
  /\ IterEnterGroup
  /\ TestBody(emitted'[Len(emitted')])
  /\ UNCHANGED <<loadVars, vecVars, trainVars>>

\* The loop is over: R = (R / N) * 10**4, C = C / N, R_div_C = R / C.
\* With no batch R and N are still the ints 0 and R / N raises
\* ZeroDivisionError; otherwise they are tensors.
TestEnd ==
  /\ epc = "loop"
  /\ IterStop
  /\ IF emitted = <<>>
       THEN /\ epc' = "raised"
            /\ UNCHANGED <<R, C, N, R_div_C>>
       ELSE /\ epc' = "reported"
            /\ R' = Frac(R * ScaleR, N)
            /\ C' = Frac(C, N)
            /\ R_div_C' = Divide(Frac(R * ScaleR, N), Frac(C, N))
            /\ N' = N

TestReport == TestEnd /\ UNCHANGED <<loadVars, vecVars, trainVars>>

NextTest == TestIter \/ TestBatch \/ TestFirstBatch \/ TestReport

SpecTest == InitTest /\ [][NextTest]_vars

\* --------------------------------------------------------------- calc_loss
\* torch.where((click_tensor == 1), clicked, not_clicked) with
\* clicked = zeros and not_clicked = ones
LossRectifiedLabel(s) == IF s.click = 1 THEN 0 ELSE 1

LossLabelledWeights(batch) ==
  [k \in 1..Len(batch) |-> LossRectifiedLabel(batch[k]) * ImportanceWeight(batch[k])]

\* o_tensor = torch.where((click == 1), not_clicked_tensor, clicked_tensor):
\* click is not the parameter but the script's loop variable, of shape [B],
\* and the two operands have shape [B, 1], so torch.where broadcasts to
\* [B, B]; entry [r][c] is 10 when click[c] is 1, else 1.
LossNormalizerTensor(batch) ==
  [r \in 1..Len(batch) |-> [c \in 1..Len(batch) |-> IF batch[c].click = 1 THEN 10 ELSE 1]]

\* tensor.sum() of a two-dimensional tensor
TensorSum(t) == SumSeq([r \in 1..Len(t) |-> SumSeq(t[r])])

\* loss_tensor = -(R_tensor / N_tensor), R_tensor scaled by 10 ** 4
CalcLoss(batch) ==
  Frac(0 - SumSeq(LossLabelledWeights(batch)) * ScaleR, TensorSum(LossNormalizerTensor(batch)))

\* ------------------------------------------------- the script: epoch loop
\* BatchIterator(ds, size, enable_cuda) constructed in a step
NewIter(ds, size) ==
  /\ dataset' = ds
  /\ batch_size' = size
  /\ sorted_per_pool_size' = SortedPerPoolSize(ds)
  /\ gen' = "new"
  /\ gi' = 0
  /\ bi' = 0
  /\ emitted' = <<>>
  /\ again' = FALSE

\* a finished pass, as the history records it: its batches and the count
\* of optimizer steps when it ended
Pass(kind, e, batches, stepped) ==
  [kind |-> kind, epoch |-> e, batches |-> batches, steps |-> stepped]

\* After model and optimizer are set up: the script is inside the
\* run_test_set call that precedes the epoch loop.
InitTrain ==
  /\ train_set \in Datasets(MaxSplit)
  /\ test_set \in Datasets(MaxSplit)
  /\ epochs \in 0..MaxEpochs
  /\ epoch = -1
  /\ tpc = "eval"
  /\ steps = 0
  /\ losses = <<>>
  /\ passes = <<>>
  /\ \E size \in 1..MaxBatch : InitIter(test_set, size)
  /\ R = 0 /\ C = 0 /\ N = 0 /\ R_div_C = 0
  /\ epc = "loop"
  /\ IdleLoad
  /\ IdleVec

\* for ... in BatchIterator(...): the call of __iter__, in either loop
MainIter ==
  /\ tpc \in {"eval", "train"}
  /\ gen = "new"
  /\ IterCall
  /\ UNCHANGED <<loadVars, vecVars, evalVars, trainVars>>

\* run_test_set: the body of its loop; no optimizer call
MainTestBatch ==
  /\ tpc = "eval"
  /\ epc = "loop"
  /\ IterYield
  /\ TestBody(emitted'[Len(emitted')])
  /\ UNCHANGED <<loadVars, vecVars, trainVars>>

MainTestFirstBatch ==
  /\ tpc = "eval"
  /\ epc = "loop"
  /\ IterEnterGroup
  /\ TestBody(emitted'[Len(emitted')])
  /\ UNCHANGED <<loadVars, vecVars, trainVars>>

\* run_test_set: the divisions and the print; ZeroDivisionError ends the
\* script
MainTestReport ==
  /\ tpc = "eval"
  /\ TestEnd
  /\ IF emitted = <<>>
       THEN /\ tpc' = "raised"
            /\ passes' = passes
       ELSE /\ tpc' = tpc
            /\ passes' = Append(passes, Pass("eval", epoch, Len(emitted), steps))
  /\ UNCHANGED <<loadVars, vecVars, train_set, test_set, epochs, epoch, steps, losses>>

\* for i in range(args.epochs): losses = [], then the BatchIterator over
\* train_set
MainEpoch ==
  /\ tpc = "eval"
  /\ epc = "reported"
  /\ epoch + 1 < epochs
  /\ epoch' = epoch + 1
  /\ tpc' = "train"
  /\ losses' = <<>>
  /\ NewIter(train_set, batch_size)
  /\ R' = 0 /\ C' = 0 /\ N' = 0 /\ R_div_C' = 0
  /\ epc' = "idle"
  /\ UNCHANGED <<loadVars, vecVars, train_set, test_set, epochs, steps, passes>>

\* range(args.epochs) is exhausted
MainExit ==
  /\ tpc = "eval"
  /\ epc = "reported"
  /\ epoch + 1 >= epochs
  /\ tpc' = "done"
  /\ UNCHANGED <<loadVars, vecVars, iterVars, evalVars, train_set, test_set, epochs, epoch, steps, losses, passes>>

\* the body of the training loop: zero_grad, model(sample), calc_loss,
\* losses.append, backward, optimizer.step
TrainBody(batch) ==
  /\ losses' = Append(losses, CalcLoss(batch))
  /\ steps' = steps + 1
  /\ UNCHANGED <<train_set, test_set, epochs, epoch, tpc, passes>>

MainTrainBatch ==
  /\ tpc = "train"
  /\ IterYield
  /\ TrainBody(emitted'[Len(emitted')])
  /\ UNCHANGED <<loadVars, vecVars, evalVars>>

MainTrainFirstBatch ==
  /\ tpc = "train"
  /\ IterEnterGroup
  /\ TrainBody(emitted'[Len(emitted')])
  /\ UNCHANGED <<loadVars, vecVars, evalVars>>

\* the training loop ends
MainTrainStop ==
  /\ tpc = "train"
  /\ IterStop
  /\ UNCHANGED <<loadVars, vecVars, evalVars, trainVars>>

\* sum(losses) / len(losses) (ZeroDivisionError on an empty list), the
\* print, and the entry into run_test_set: R = C = N = 0 and the
\* BatchIterator over test_set
MainEpochEnd ==
  /\ tpc = "train"
  /\ gen = "stopped"
  /\ IF losses = <<>>
       THEN /\ tpc' = "raised"
            /\ UNCHANGED <<passes, iterVars, evalVars>>
       ELSE /\ tpc' = "eval"
            /\ passes' = Append(passes, Pass("train", epoch, Len(emitted), steps))
            /\ NewIter(test_set, batch_size)
            /\ R' = 0 /\ C' = 0 /\ N' = 0 /\ R_div_C' = 0
            /\ epc' = "loop"
  /\ UNCHANGED <<loadVars, vecVars, train_set, test_set, epochs, epoch, steps, losses>>

NextTrain ==
  \/ MainIter \/ MainTestBatch \/ MainTestFirstBatch \/ MainTestReport
  \/ MainEpoch \/ MainExit \/ MainTrainBatch \/ MainTrainFirstBatch
  \/ MainTrainStop \/ MainEpochEnd

SpecTrain == InitTrain /\ [][NextTrain]_vars

\* ================================================================ claims
\* The lines of the file load processes: raw index k with
\* start_idx <= k, below the cutoff when there is one.
InRange(k) == k >= start_idx /\ (stop_idx = -1 \/ k < stop_idx)

LoadReturned == pc \in {"hash", "done"}

BoundaryLinesProcessed ==
  Cardinality({k \in 0..(Len(file) - 1) : InRange(k) /\ file[k + 1].kind = "shared"})

\* C1: when load returns, len(samples) is the number of session-boundary
\* lines it processed: the session pending at the end of the stream or at
\* the cutoff is finalized and appended too.  (The code leaves it pending.)
C1_OneSessionPerBoundary == LoadReturned => Len(samples) = BoundaryLinesProcessed

\* C9: every finalized session takes click and propensity from the score
\* field of its first candidate line only, click rounded, and holds one
\* vector per candidate line, in arrival order.
VecOfCandidate(s, k) ==
  LET v == ProductVec(s.summary, s.products[k], hasher)[1] IN
  IF hasher /\ pc = "done" THEN ListVec(v.numerical \o HashTransform(v.categorical)) ELSE v

FirstCandidate(s) == file[s.at.products[1] + 1]

C9_Session(s) ==
  /\ s.products # <<>>
  /\ s.click = Round(FirstCandidate(s).click2)
  /\ s.propensity = FirstCandidate(s).propensity
  /\ Len(s.product_vecs) = Len(s.products)
  /\ Len(s.at.products) = Len(s.products)
  /\ \A k \in 1..Len(s.products) :
       /\ s.products[k] = file[s.at.products[k] + 1]
       /\ k > 1 => s.at.products[k - 1] < s.at.products[k]
       /\ s.product_vecs[k] = VecOfCandidate(s, k)

C9_FirstCandidateScore == \A n \in 1..Len(samples) : C9_Session(samples[n])

\* a finalized session whose second candidate carries another score
C9_Witness ==
  \E n \in 1..Len(samples) :
    /\ Len(samples[n].products) >= 2
    /\ samples[n].products[2].fmt = "ok"
    /\ samples[n].products[2].click2 # samples[n].products[1].click2
    /\ samples[n].products[2].propensity # samples[n].products[1].propensity
    /\ samples[n].click = 2

\* C10: sessions are built only from the lines with start_idx <= i <
\* stop_idx (no upper limit when stop_idx = -1), blank lines excepted: the
\* lines used so far are exactly the non-blank lines of the range read so
\* far, from the first boundary line of the range on.
UsedBy(s) == {s.at.summary} \cup Range(s.at.products)

UsedLines ==
  UNION ({UsedBy(samples[n]) : n \in 1..Len(samples)} \cup {UsedBy(sample[n]) : n \in 1..Len(sample)})

StartsSession == {k \in 0..(Len(file) - 1) : InRange(k) /\ file[k + 1].kind = "shared"}

C10_OnlyLinesInRange ==
  /\ UsedLines = {k \in 0..(i - 1) : /\ InRange(k)
                                     /\ file[k + 1].kind # "blank"
                                     /\ \E b \in StartsSession : b <= k}
  /\ \A n \in 1..Len(samples) : samples[n].at.summary \in StartsSession
  /\ \A n \in 1..Len(sample) : sample[n].at.summary \in StartsSession
  /\ (LoadReturned /\ stop_idx = -1) => i = Len(file)
  /\ (LoadReturned /\ i < Len(file)) => (stop_idx # -1 /\ i >= stop_idx)

\* a boundary line before the start offset, a blank line in the range and
\* a candidate line at the cutoff, with a session pending in between
C10_Witness ==
  /\ pc = "done"
  /\ start_idx = 1
  /\ stop_idx = 3
  /\ Len(file) = 4
  /\ file[1].kind = "shared"
  /\ file[2].kind = "shared"
  /\ file[3].kind = "blank"
  /\ file[4].kind = "product"
  /\ Len(sample) = 1
  /\ sample[1].at.summary = 1
  /\ sample[1].products = <<>>

\* C8 as claimed: right after a categorical token whose category is absent
\* from the dictionary of its feature id, slot id-1 is 0, whatever came
\* before it.
IsCategorical(t) == t.form \in {"cat", "catw"}

AbsentCategory(t) ==
  /\ IsCategorical(t)
  /\ t.id \in DOMAIN FeatureDict
  /\ t.value \notin DOMAIN FeatureDict[t.id]

C8_AbsentSlotIsZero ==
  (pos >= 1 /\ AbsentCategory(features[pos])) => vector[features[pos].id] = 0

\* C8 as amended: such a token raises nothing and leaves the slot as it
\* was: 0 if no earlier token wrote it, else the value of the last earlier
\* token that wrote it.
Writes(t, d) ==
  \/ t.form = "num" /\ t.id = d
  \/ IsCategorical(t) /\ t.id = d /\ t.id \in DOMAIN FeatureDict /\ t.value \in DOMAIN FeatureDict[d]

Written(t) == IF t.form = "num" THEN t.value ELSE FeatureDict[t.id][t.value]

RECURSIVE LastWrite(_, _)
LastWrite(d, n) ==
  IF n = 0 THEN 0
  ELSE IF Writes(features[n], d) THEN Written(features[n])
  ELSE LastWrite(d, n - 1)

C8_AbsentLeavesSlot ==
  /\ (vpc = "raised") => ~AbsentCategory(features[pos + 1])
  /\ (pos >= 1 /\ AbsentCategory(features[pos])) =>
        vector[features[pos].id] = LastWrite(features[pos].id, pos - 1)

\* an absent category after a token that wrote its slot
C8_Witness ==
  /\ vpc = "done"
  /\ pos = 2
  /\ AbsentCategory(features[2])
  /\ Writes(features[1], features[2].id)
  /\ vector[features[2].id] = Written(features[1])
  /\ vector[features[2].id] # 0

\* C4: a construction that reads the pickle file of (path, cutoff) ends as
\* a fresh parse of the same file with the call's cutoff, start offset and
\* vectorization mode would: the same sessions by content, or the same
\* failure.  (The pickle is keyed by path and cutoff alone.)
Contents(ss) == [n \in 1..Len(ss) |-> Content(ss[n])]

FreshParse == CriteoDataset(file, NoPickles, stop_idx, start_idx, hasher)

C4_CachedEqualsFreshParse ==
  (cached /\ pc \in {"done", "raised"}) =>
     /\ (pc = "raised") = FreshParse.raised
     /\ Contents(samples) = Contents(FreshParse.samples)

\* C2: one full iteration of the batcher yields every session of the
\* dataset in exactly one batch, on the first iteration and on every later
\* one; no session is yielded twice on the way.
Occurrences(sid) ==
  Cardinality({bk \in (1..Len(emitted)) \X (1..Len(dataset)) :
                 /\ bk[2] <= Len(emitted[bk[1]])
                 /\ emitted[bk[1]][bk[2]].sid = sid})

C2_EverySessionOnce ==
  /\ \A b \in 1..Len(emitted) : \A k \in 1..Len(emitted[b]) :
        /\ emitted[b][k].sid \in 1..Len(dataset)
        /\ emitted[b][k] = dataset[emitted[b][k].sid]
  /\ \A sid \in 1..Len(dataset) : Occurrences(sid) <= 1
  /\ gen = "stopped" => \A sid \in 1..Len(dataset) : Occurrences(sid) = 1

\* a second iteration over three sessions has ended, in several batches
C2_Witness ==
  /\ gen = "stopped"
  /\ again
  /\ Len(dataset) = 3
  /\ Len(emitted) = 2
  /\ \E b \in 1..Len(emitted) : Len(emitted[b]) = 2

\* C3: the sessions of a batch all have the same pool size, and the groups
\* are the sessions of the dataset by pool size, one group per pool size:
\* none merged, none split.
C3_OnePoolSizePerBatch ==
  /\ \A b \in 1..Len(emitted) : \A j, k \in 1..Len(emitted[b]) :
        emitted[b][j].pool = emitted[b][k].pool
  /\ \A g, h \in 1..Len(sorted_per_pool_size) :
        sorted_per_pool_size[g].pool_size = sorted_per_pool_size[h].pool_size => g = h
  /\ \A g \in 1..Len(sorted_per_pool_size) :
        /\ Range(sorted_per_pool_size[g].data) =
             {s \in Range(dataset) : s.pool = sorted_per_pool_size[g].pool_size}
        /\ Len(sorted_per_pool_size[g].data) = Cardinality(Range(sorted_per_pool_size[g].data))
        /\ sorted_per_pool_size[g].data # <<>>

\* a batch of two sessions of one pool size next to a batch of another
C3_Witness ==
  /\ gen = "stopped"
  /\ \E b, c \in 1..Len(emitted) :
        /\ Len(emitted[b]) = 2
        /\ emitted[b][1].pool # emitted[c][1].pool

\* C5: the rectified label is 1 where click == 1 and 0 elsewhere, so R is
\* the sum of the importance weights of the clicked sessions seen so far.
\* (The code's where() gives 0 where click == 1 and 1 elsewhere.)
RECURSIVE Flatten(_)
Flatten(bs) == IF bs = <<>> THEN <<>> ELSE Head(bs) \o Flatten(Tail(bs))

ClickedWeight(s) == IF s.click = 1 THEN ImportanceWeight(s) ELSE 0

ClickedWeights(batch) == [k \in 1..Len(batch) |-> ClickedWeight(batch[k])]

C5_RSumsClickedSessions ==
  epc = "loop" => R = SumSeq(ClickedWeights(Flatten(emitted)))

\* C6: a pass whose denominator is zero (no session at all, or importance
\* weights that sum to zero) reports 'undefined': it neither raises nor
\* reports nan or inf.  (The code raises ZeroDivisionError on an empty
\* split and prints nan otherwise.)
ZeroDenominator == dataset = <<>> \/ SumSeq(ImportanceWeights(dataset)) = 0

C6_ZeroDenominatorIsUndefined ==
  (epc \in {"reported", "raised"} /\ ZeroDenominator) =>
     (epc = "reported" /\ R_div_C.kind = "undefined")

\* C7: R, C and N are running sums over the sessions of all batches seen,
\* divided once when the pass is over: the reported R, C and R/C are those
\* of the dataset as a whole, whatever the batch size and the shuffles.
C7_PooledBeforeDividing ==
  /\ epc = "loop" =>
        /\ R = SumSeq(LabelledWeights(Flatten(emitted)))
        /\ C = SumSeq(ImportanceWeights(Flatten(emitted)))
        /\ N = SumSeq(Normalizers(Flatten(emitted)))
  /\ epc = "reported" =>
        /\ R = Frac(ScaleR * SumSeq(LabelledWeights(dataset)), SumSeq(Normalizers(dataset)))
        /\ C = Frac(SumSeq(ImportanceWeights(dataset)), SumSeq(Normalizers(dataset)))
        /\ R_div_C = Divide(R, C)
        /\ SumSeq(ImportanceWeights(dataset)) # 0 =>
             R_div_C = Frac(ScaleR * SumSeq(LabelledWeights(dataset)), SumSeq(ImportanceWeights(dataset)))

\* a pass over one group of three sessions in batches of two and one, with
\* a ratio that is a number other than zero
C7_Witness ==
  /\ epc = "reported"
  /\ batch_size = 2
  /\ Len(emitted) = 2
  /\ Len(emitted[1]) = 2
  /\ Len(emitted[2]) = 1
  /\ emitted[1][1].pool = emitted[2][1].pool
  /\ R_div_C.kind = "number"
  /\ R_div_C.num > 0
  /\ \E j, k \in 1..3 : LabelledWeight(dataset[j]) # LabelledWeight(dataset[k])

\* C14: in one iteration with batch size B >= 1 every batch has between 1
\* and B sessions, and a group of n sessions is emitted as exactly
\* ceil(n / B) batches, all of size B except possibly the last one of the
\* group; no batch is empty.
CeilDiv(n, d) == (n + d - 1) \div d

GroupBatches(g) ==
  LET OfGroup(b) == b # <<>> /\ b[1].pool = sorted_per_pool_size[g].pool_size
  IN SelectSeq(emitted, OfGroup)

C14_GroupComplete(g) ==
  LET n == Len(sorted_per_pool_size[g].data)
      bs == GroupBatches(g)
  IN /\ Len(bs) = CeilDiv(n, batch_size)
     /\ \A k \in 1..(Len(bs) - 1) : Len(bs[k]) = batch_size
     /\ Len(bs[Len(bs)]) = n - batch_size * (Len(bs) - 1)

C14_BatchSizes ==
  /\ \A k \in 1..Len(emitted) : Len(emitted[k]) >= 1 /\ Len(emitted[k]) <= batch_size
  /\ gen = "running" => \A g \in 1..(gi - 1) : C14_GroupComplete(g)
  /\ gen = "stopped" => \A g \in 1..Len(sorted_per_pool_size) : C14_GroupComplete(g)

\* a finished iteration over a group of three sessions in batches of two:
\* ceil(3 / 2) = 2 batches, of sizes 2 and 1
C14_Witness ==
  /\ gen = "stopped"
  /\ batch_size = 2
  /\ \E g \in 1..Len(sorted_per_pool_size) :
       /\ Len(sorted_per_pool_size[g].data) = 3
       /\ Len(GroupBatches(g)) = 2
       /\ Len(GroupBatches(g)[2]) = 1

\* C13: a malformed candidate line (no '|', or a score field that is not
\* label:click:propensity) at any position of a session makes the load
\* fail: no list holding a session built from a malformed line is
\* returned.  (The code parses the score of the first candidate only and
\* takes split("|")[-1] of the others.)
BuiltFromMalformed(s) == \E k \in 1..Len(s.products) : s.products[k].fmt # "ok"

C13_MalformedLineFailsLoad ==
  LoadReturned => \A n \in 1..Len(samples) : ~BuiltFromMalformed(samples[n])

\* C12: once done() has returned for a session, nothing later changes its
\* click, propensity, candidate list or candidate vectors, and nothing
\* moves it in self.samples: every step of the constructor leaves each
\* session already in self.samples as it is.  (The hashing branch of
\* __init__ assigns s.product_vecs again.)
SessionKept(n) == n <= Len(samples') /\ samples'[n] = samples[n]

C12_FinalizedNeverChanged == [][\A n \in 1..Len(samples) : SessionKept(n)]_vars

\* C11: a run of E epochs that is over has done, for each epoch in order,
\* one training pass over every training batch with one parameter update
\* per batch, then exactly one evaluation pass over every test batch with
\* no update.  (The evaluation pass raises on an empty test split, see C6,
\* and the epoch's average raises on an empty training split.)
NumBatches(ds, size) ==
  LET groups == SortedPerPoolSize(ds)
  IN SumSeq([g \in 1..Len(groups) |-> CeilDiv(Len(groups[g].data), size)])

RunOver == tpc \in {"done", "raised"}

C11_EpochPasses(e) ==
  /\ passes[2 * e + 2] =
       Pass("train", e, NumBatches(train_set, batch_size), (e + 1) * NumBatches(train_set, batch_size))
  /\ passes[2 * e + 3] =
       Pass("eval", e, NumBatches(test_set, batch_size), (e + 1) * NumBatches(train_set, batch_size))

C11_EveryEpochTrainsThenEvaluates ==
  RunOver /\ epochs >= 1 =>
    /\ tpc = "done"
    /\ Len(passes) = 1 + 2 * epochs
    /\ \A e \in 0..(epochs - 1) : C11_EpochPasses(e)

\* C15: calc_loss and run_test_set give click = 1 and click # 1 the same
\* rectified label and the same normalizer, so the loss of a training batch
\* is minus what run_test_set reports as R x 10^4 for that batch alone.
\* (calc_loss takes its normalizer from the script's click, not from its
\* parameter.)
BatchR(batch) == Frac(SumSeq(LabelledWeights(batch)) * ScaleR, SumSeq(Normalizers(batch)))

Negated(x) == [x EXCEPT !.num = 0 - x.num]

C15_LossIsMinusEvalR ==
  tpc = "train" =>
    \A k \in 1..Len(losses) :
      /\ \A j \in 1..Len(emitted[k]) :
           LossRectifiedLabel(emitted[k][j]) = RectifiedLabel(emitted[k][j])
      /\ losses[k] = Negated(BatchR(emitted[k]))
====
